---- MODULE Spec2Model ----
(***************************************************************************)
(* Model of streamlit_app.py: the cached load of NBA_career_stats.csv      *)
(* (z-score normalisation and Career Score), the similar-player query and  *)
(* its display, and the dataset-statistics view.                           *)
(*                                                                         *)
(* A CSV file is [exists, header, rows]; a DataFrame is                    *)
(* [none, columns, numeric, rows], each row a record of its columns plus   *)
(* the field "index" (the pandas row label).  A text cell is a string,     *)
(* StrNaN standing for a blank; a number cell is [nan, v].  Normalised     *)
(* values and Career Scores are fixed-point integers, Scale units to 1.0.  *)
(***************************************************************************)
EXTENDS Integers, Sequences, FiniteSets, TLC

\* ------------------------------------------------------------------ bounds
MaxRows == 3
Scale == 10

\* --------------------------------------------------------------- constants
\* The choices of the "Number of Similar Players" selectbox.
ComparisonChoices == {1, 2, 3, 4, 5}
\* final_df.nlargest(10, 'Career Score')
TopN == 10
\* key_stats = ['pts', 'reb', 'ast', 'fg_pct'] ... key_stats[:3]
KeyStats == <<"pts", "reb", "ast", "fg_pct">>
KeyStatsShown == 3

\* ------------------------------------------------------------------- cells
StrNaN == "nan"
NaN == [nan |-> TRUE, v |-> 0]
Num(x) == [nan |-> FALSE, v |-> x]

\* pandas ==  and  !=  on a text column: a blank equals nothing, itself included.
Eq(a, b) == a # StrNaN /\ b # StrNaN /\ a = b
Ne(a, b) == ~Eq(a, b)

Abs(x) == IF x < 0 THEN -x ELSE x
Max(a, b) == IF a >= b THEN a ELSE b
Min(a, b) == IF a <= b THEN a ELSE b

RECURSIVE SumSeq(_)
SumSeq(s) == IF s = <<>> THEN 0 ELSE Head(s) + SumSeq(Tail(s))

RECURSIVE SelectSeqIdx(_, _, _)
\* The subsequence of s at the positions i (ascending) with keep[i].
SelectSeqIdx(s, keep, i) ==
  IF i > Len(s) THEN <<>>
  ELSE (IF keep[i] THEN <<s[i]>> ELSE <<>>) \o SelectSeqIdx(s, keep, i + 1)

\* df[mask]: the rows whose mask is true, order and index labels kept.
BoolIndex(df, keep) == [df EXCEPT !.rows = SelectSeqIdx(df.rows, keep, 1)]

InSeq(x, s) == \E i \in DOMAIN s : s[i] = x

\* -------------------------------------------------------------- DataFrames
None == [none |-> TRUE, columns |-> <<>>, numeric |-> {}, rows |-> <<>>]
\* pd.DataFrame()
EmptyFrame == [none |-> FALSE, columns |-> <<>>, numeric |-> {}, rows |-> <<>>]

\* The columns of the modelled sources that hold numbers or blanks.
StatNames == {"pts", "reb"}

NoFile == [exists |-> FALSE, header |-> <<>>, rows |-> <<>>]

\* pd.read_csv on an existing file: a RangeIndex, and dtype inference.  A stat
\* column is float64 as soon as there is a row (all-blank included); with no
\* row every column is object.  The text columns are object.
read_csv(file) ==
  [none |-> FALSE,
   columns |-> file.header,
   numeric |-> IF Len(file.rows) = 0 THEN {}
               ELSE {c \in StatNames : InSeq(c, file.header)},
   rows |-> [i \in DOMAIN file.rows |->
               [c \in {file.header[j] : j \in DOMAIN file.header} \cup {"index"} |->
                  IF c = "index" THEN i - 1 ELSE file.rows[i][c]]]]

\* ------------------------------------------------------------ normalisation
ISqrt(n) == CHOOSE r \in 0..n : r * r <= n /\ (r + 1) * (r + 1) > n

Column(rows, c) == [i \in DOMAIN rows |-> rows[i][c]]
Present(col) == {i \in DOMAIN col : ~col[i].nan}
ColSum(col) == SumSeq([i \in DOMAIN col |-> IF col[i].nan THEN 0 ELSE col[i].v])

\* stats.fillna(stats.mean()) on one column: the mean is taken over the
\* non-missing values; with none it is NaN and fillna leaves the column as it
\* is.  The values are returned in units of 1/count (each multiplied by the
\* count of non-missing values), which keeps the mean an integer; the z-score
\* below is unchanged by a positive rescaling of a column.
Fillna(col) ==
  LET cnt == Cardinality(Present(col))
      total == ColSum(col)
  IN IF cnt = 0 THEN col
     ELSE [i \in DOMAIN col |-> IF col[i].nan THEN Num(total) ELSE Num(col[i].v * cnt)]

\* StandardScaler().fit_transform on one column: (x - mean) / std with the
\* population std; NaN is ignored in fit and kept in transform; a zero
\* variance gives scale 1, so a constant column becomes 0.
StandardScale(col) ==
  LET P == Present(col)
      n == Cardinality(P)
      total == ColSum(col)
      dev == [i \in DOMAIN col |-> IF col[i].nan THEN 0 ELSE n * col[i].v - total]
      sumsq == SumSeq([i \in DOMAIN col |-> dev[i] * dev[i]])
      z(i) == IF sumsq = 0 THEN 0
              ELSE LET m == ISqrt((dev[i] * dev[i] * n * Scale * Scale) \div sumsq)
                   IN IF dev[i] < 0 THEN -m ELSE m
  IN [i \in DOMAIN col |-> IF col[i].nan THEN NaN ELSE Num(z(i))]

\* final_df[numerical_columns].sum(axis=1): NaN is skipped (skipna), so the
\* sum of a row is always a number.
RowSum(row, cols) ==
  LET RECURSIVE Go(_)
      Go(S) == IF S = {} THEN 0
               ELSE LET c == CHOOSE c \in S : TRUE
                    IN (IF row[c].nan THEN 0 ELSE row[c].v) + Go(S \ {c})
  IN Num(Go(cols))

SeqToSet(s) == {s[i] : i \in DOMAIN s}
\* The columns of header that are in S, in header order.
SelectCols(header, S) == SelectSeq(header, LAMBDA c : c \in S)

\* sklearn's check_array: fit_transform raises ValueError on an array with no
\* sample or no feature.
ScalerRejects(stats) == Len(stats.rows) = 0 \/ stats.numeric = {}

\* ------------------------------------------------------------------- load
FileNotFoundMsg == "NBA_career_stats.csv file not found"
NoPlayerColumnMsg == "Dataset must contain a 'player' column"
LoadErrorMsg == "Error loading data"
FailedToLoadMsg == "Failed to load NBA data"

\* A failure path that hands back an empty table instead of None.
LoadFailure_EmptyFrame(msg) ==
  [final_df |-> EmptyFrame, original_data |-> EmptyFrame, errors |-> {msg}]

LoadFailure(msg) == [final_df |-> None, original_data |-> None, errors |-> {msg}]

\* Lines 24-56: the body of the try block once nba_data is read.
process_data(nba_read) ==
  IF ~InSeq("player", nba_read.columns) THEN LoadFailure(NoPlayerColumnMsg)
  ELSE
    LET \* nba_data['pos'] = 'Unknown'
        nba_data ==
          IF InSeq("pos", nba_read.columns) THEN nba_read
          ELSE [nba_read EXCEPT
                  !.columns = Append(@, "pos"),
                  !.rows = [i \in DOMAIN @ |->
                              [c \in DOMAIN @[i] \cup {"pos"} |->
                                 IF c = "pos" THEN "Unknown" ELSE @[i][c]]]]
        \* stats = nba_data.select_dtypes(include=[np.number])
        statCols == SelectCols(nba_data.columns, nba_data.numeric)
        stats == [nba_data EXCEPT !.columns = statCols]
        normalized == [c \in nba_data.numeric |->
                         StandardScale(Fillna(Column(nba_data.rows, c)))]
        finalCols == <<"player", "pos">> \o statCols
        withStats ==
          [i \in DOMAIN nba_data.rows |->
             [c \in SeqToSet(finalCols) \cup {"index"} |->
                IF c \in nba_data.numeric THEN normalized[c][i]
                ELSE nba_data.rows[i][c]]]
        final_rows ==
          [i \in DOMAIN withStats |->
             [c \in DOMAIN withStats[i] \cup {"Career Score"} |->
                IF c = "Career Score" THEN RowSum(withStats[i], nba_data.numeric)
                ELSE withStats[i][c]]]
    IN IF ScalerRejects(stats) THEN LoadFailure(LoadErrorMsg)
       ELSE [final_df |-> [none |-> FALSE,
                           columns |-> Append(finalCols, "Career Score"),
                           numeric |-> nba_data.numeric \cup {"Career Score"},
                           rows |-> final_rows],
             original_data |-> nba_data,
             errors |-> {}]

\* Lines 10-63.  fs is the file system: the file at the local path and the file
\* at the fallback path.
\* The st.info notice of the fallback path (line 22) is not kept.
load_and_process_data(fs) ==
  IF fs.local.exists THEN process_data(read_csv(fs.local))
  ELSE IF fs.fallback.exists THEN process_data(read_csv(fs.fallback))
  ELSE LoadFailure(FileNotFoundMsg)

\* ---------------------------------------------------------------- sources
PlayerNames == {"A", "B"}
Positions == {"G", "F"}
Roster == <<"A", "B", "C", "D", "E">>

Tables(RowSet, n) == UNION {[1..k -> RowSet] : k \in 0..n}
\* read_csv types a text column as object only if it holds a name: the
\* modelled sources have a name in some row of the player column.
Named(rows) == rows = <<>> \/ \E i \in DOMAIN rows : rows[i].player # StrNaN

\* Sources with duplicate player names, a blank player name and two positions.
QueryRows ==
  [player : PlayerNames, pos : Positions, pts : {Num(0), Num(1)}]
    \cup {[player |-> StrNaN, pos |-> "G", pts |-> Num(0)]}
QueryFiles ==
  {[exists |-> TRUE, header |-> <<"player", "pos", "pts">>, rows |-> r] :
     r \in {t \in Tables(QueryRows, MaxRows) : Named(t)}}
\* Sources with two stat columns and blanks in one; row i is player Roster[i].
StatFiles ==
  {[exists |-> TRUE, header |-> <<"player", "pos", "pts", "reb">>,
    rows |-> [i \in DOMAIN r |->
                [player |-> Roster[i], pos |-> "G", pts |-> r[i].pts, reb |-> r[i].reb]]] :
     r \in Tables([pts : {Num(0), Num(1), NaN}, reb : {Num(0), Num(3)}], MaxRows)}
\* Sources without a pos column.
NoPosFiles ==
  {[exists |-> TRUE, header |-> <<"player", "pts">>, rows |-> r] :
     r \in Tables([player : PlayerNames, pts : {Num(0), Num(1)}], 2)}
\* Sources without a player column.
NoPlayerFiles ==
  {[exists |-> TRUE, header |-> <<"pos", "pts">>, rows |-> r] :
     r \in Tables([pos : Positions, pts : {Num(0), Num(1)}], 1)}

FileSystems ==
  {[local |-> f, fallback |-> NoFile] :
     f \in QueryFiles \cup StatFiles \cup NoPosFiles \cup NoPlayerFiles}
  \cup {[local |-> NoFile, fallback |-> f] : f \in NoPosFiles \cup NoPlayerFiles}
  \cup {[local |-> NoFile, fallback |-> NoFile]}

\* ------------------------------------------------------------------ query
RemoveAt(s, i) == SubSeq(s, 1, i - 1) \o SubSeq(s, i + 1, Len(s))

RECURSIVE TakeSorted(_, _, _, _)
\* The first n rows in ascending order of sign * row[col], rows of equal value
\* in their order in rows.
TakeSorted(rows, n, col, sign) ==
  IF n <= 0 \/ rows = <<>> THEN <<>>
  ELSE LET key(j) == sign * rows[j][col].v
           i == CHOOSE i \in DOMAIN rows :
                  \A j \in DOMAIN rows : key(j) > key(i) \/ (key(j) = key(i) /\ j >= i)
       IN <<rows[i]>> \o TakeSorted(RemoveAt(rows, i), n - 1, col, sign)

\* nlargest in place of nsmallest.
nsmallest_Largest(df, n, col) == [df EXCEPT !.rows = TakeSorted(@, n, col, -1)]
\* sort_values without the cut to n rows.
nsmallest_Uncut(df, n, col) == [df EXCEPT !.rows = TakeSorted(@, Len(@), col, 1)]
\* head(n) without the sort.
nsmallest_Head(df, n, col) == [df EXCEPT !.rows = SubSeq(@, 1, Min(n, Len(@)))]

\* DataFrame.nsmallest(n, col), keep='first': the n rows with the smallest
\* values, ascending; among equal values the first occurrences, in table order.
nsmallest(df, n, col) == [df EXCEPT !.rows = TakeSorted(@, n, col, 1)]
\* DataFrame.nlargest(n, col), keep='first'.
nlargest(df, n, col) == [df EXCEPT !.rows = TakeSorted(@, n, col, -1)]

\* final_df[final_df['player'] == target_player]
target_rows(df, target_player) ==
  BoolIndex(df, [i \in DOMAIN df.rows |-> Eq(df.rows[i].player, target_player)])

\* The target's rows are not taken out.
other_rows_All(df, target_player) == df

\* final_df[final_df['player'] != target_player].copy()
other_rows(df, target_player) ==
  BoolIndex(df, [i \in DOMAIN df.rows |-> Ne(df.rows[i].player, target_player)])

\* The position filter is not applied.
position_filter_Off(other_players, target_position) == other_players

\* other_players[other_players['pos'] == target_position]
position_filter(other_players, target_position) ==
  BoolIndex(other_players,
            [i \in DOMAIN other_players.rows |->
               Eq(other_players.rows[i].pos, target_position)])

\* other_players['score_difference'] = abs(other_players['Career Score'] - target_score)
with_score_difference(df, target_score) ==
  [df EXCEPT
     !.columns = Append(@, "score_difference"),
     !.numeric = @ \cup {"score_difference"},
     !.rows = [i \in DOMAIN @ |->
                 [c \in DOMAIN @[i] \cup {"score_difference"} |->
                    IF c = "score_difference"
                    THEN Num(Abs(@[i]["Career Score"].v - target_score.v))
                    ELSE @[i][c]]]]

\* score_difference assigned to final_df itself before the rows are filtered.
find_similar_players_InPlace(df, target_player, num_comparisons, same_position_only) ==
  LET target_data == target_rows(df, target_player)
      target_score == target_data.rows[1]["Career Score"]
      scored_df == with_score_difference(df, target_score)
      other_players == other_rows(scored_df, target_player)
      candidates == IF same_position_only
                    THEN position_filter(other_players, target_data.rows[1].pos)
                    ELSE other_players
  IN IF target_data.rows = <<>>
     THEN [similar_players |-> EmptyFrame, final_df |-> df]
     ELSE [similar_players |-> nsmallest(candidates, num_comparisons, "score_difference"),
           final_df |-> scored_df]

\* Lines 83-105.  The result, and final_df as the call leaves it: the new
\* column is assigned to a copy of the filtered rows, never to final_df.
find_similar_players(df, target_player, num_comparisons, same_position_only) ==
  LET target_data == target_rows(df, target_player)
      other_players == other_rows(df, target_player)
      candidates == IF same_position_only
                    THEN position_filter(other_players, target_data.rows[1].pos)
                    ELSE other_players
      target_score == target_data.rows[1]["Career Score"]
      scored == with_score_difference(candidates, target_score)
  IN IF target_data.rows = <<>>
     THEN [similar_players |-> EmptyFrame, final_df |-> df]
     ELSE [similar_players |-> nsmallest(scored, num_comparisons, "score_difference"),
           final_df |-> df]

\* ---------------------------------------------------------------- display
NoView == [kind |-> "none"]

\* The key stats of one result row (lines 143-148): the first KeyStatsShown of
\* KeyStats that are columns of original_data, read from the first row of
\* original_data with that player.
key_stats_of(orig, player) ==
  LET key_stats == IF \E i \in DOMAIN KeyStats : InSeq(KeyStats[i], orig.columns)
                   THEN KeyStats ELSE <<>>
      shown == SubSeq(key_stats, 1, Min(KeyStatsShown, Len(key_stats)))
      original_player_data == target_rows(orig, player)
  IN SelectSeq([i \in DOMAIN shown |->
                  IF InSeq(shown[i], orig.columns) /\ original_player_data.rows # <<>>
                  THEN [stat |-> shown[i], value |-> original_player_data.rows[1][shown[i]]]
                  ELSE [stat |-> "", value |-> NaN]],
               LAMBDA e : e.stat # "")

\* Lines 107-154.  raised is the exception that leaves the function, "none"
\* if it returns.  final_df[...].iloc[0] raises IndexError on no row.
display_player_comparison(df, orig, target_player, similar_players, same_position_only) ==
  LET matches == target_rows(df, target_player)
      target_info == matches.rows[1]
      entry(player) ==
        [player |-> player.player,
         pos |-> player.pos,
         career_score |-> player["Career Score"],
         score_difference |-> player.score_difference,
         \* max(0, 100 - score_difference * 10), in Scale units
         score_similarity |-> Max(0, 100 * Scale - player.score_difference.v * 10),
         key_stats |-> key_stats_of(orig, player.player)]
  IN IF matches.rows = <<>>
     THEN [raised |-> "IndexError", view |-> [kind |-> "exception"]]
     ELSE IF similar_players.rows # <<>>
     THEN [raised |-> "none",
           view |-> [kind |-> "comparison",
                     target |-> target_player,
                     position |-> target_info.pos,
                     career_score |-> target_info["Career Score"],
                     entries |-> [i \in DOMAIN similar_players.rows |->
                                    entry(similar_players.rows[i])]]]
     ELSE [raised |-> "none",
           view |-> [kind |-> "warning",
                     target |-> target_player,
                     position |-> target_info.pos,
                     career_score |-> target_info["Career Score"],
                     in_position |-> IF same_position_only THEN matches.rows[1].pos
                                     ELSE ""]]

\* Lines 168-191.
dataset_statistics(df) ==
  [kind |-> "statistics",
   total_players |-> Len(df.rows),
   available_columns |-> Len(df.columns),
   pos_counts |-> [p \in {df.rows[i].pos : i \in DOMAIN df.rows} \ {StrNaN} |->
                     Cardinality({i \in DOMAIN df.rows : df.rows[i].pos = p})],
   top_players |-> [i \in DOMAIN nlargest(df, TopN, "Career Score").rows |->
                      LET r == nlargest(df, TopN, "Career Score").rows[i]
                      IN [player |-> r.player, pos |-> r.pos,
                          career_score |-> r["Career Score"]]]]

\* ------------------------------------------------------------------ state
VARIABLES
  fs,               \* the CSV files at the local and the fallback path
  pc,               \* "start", "failed" (else branch), "ready" (UI drawn), "shown"
  final_df,         \* the normalised table, None before and after a failed load
  original_data,    \* the raw table
  errors,           \* the st.error messages of the session
  query,            \* the inputs of the query of this run
  similar_players,  \* its result
  raised,           \* the exception that ended this run, "none" if none
  view              \* what this run drew below the inputs

vars == <<fs, pc, final_df, original_data, errors, query, similar_players, raised, view>>

NoQuery == [asked |-> FALSE, player_name |-> "", num_comparisons |-> 0,
            same_position_only |-> FALSE]

Init ==
  /\ fs \in FileSystems
  /\ pc = "start"
  /\ final_df = None
  /\ original_data = None
  /\ errors = {}
  /\ query = NoQuery
  /\ similar_players = None
  /\ raised = "none"
  /\ view = NoView

\* Lines 66-69 and 193-194: the first run of the script loads the data; the
\* UI is drawn only if final_df is not None.
Load ==
  /\ pc = "start"
  /\ LET loaded == load_and_process_data(fs)
     IN /\ final_df' = loaded.final_df
        /\ original_data' = loaded.original_data
        /\ IF ~loaded.final_df.none
           THEN pc' = "ready" /\ errors' = loaded.errors
           ELSE pc' = "failed" /\ errors' = loaded.errors \cup {FailedToLoadMsg}
  /\ UNCHANGED <<fs, query, similar_players, raised, view>>

\* final_df['player'].unique(): the options of the player selectbox.
player_options(df) == {df.rows[i].player : i \in DOMAIN df.rows}

\* Lines 157-162: a click on "Find Similar Players" with the inputs of
\* get_player_input (lines 76-81).
FindSimilarClick ==
  /\ pc = "ready"
  /\ \E player_name \in player_options(final_df),
        num_comparisons \in ComparisonChoices,
        same_position_only \in BOOLEAN :
       LET found == find_similar_players(final_df, player_name, num_comparisons,
                                         same_position_only)
           drawn == display_player_comparison(found.final_df, original_data, player_name,
                                              found.similar_players, same_position_only)
       IN /\ query' = [asked |-> TRUE, player_name |-> player_name,
                       num_comparisons |-> num_comparisons,
                       same_position_only |-> same_position_only]
          /\ similar_players' = found.similar_players
          /\ final_df' = found.final_df
          /\ raised' = drawn.raised
          /\ view' = drawn.view
  /\ pc' = "shown"
  /\ UNCHANGED <<fs, original_data, errors>>

\* Lines 168-191: a click on "Show Dataset Statistics".
ShowDatasetStatistics ==
  /\ pc = "ready"
  /\ view' = dataset_statistics(final_df)
  /\ pc' = "shown"
  /\ UNCHANGED <<fs, final_df, original_data, errors, query, similar_players, raised>>

\* The next run of the script: the output of the last run is cleared, the
\* cached load returns the same tables and the inputs are drawn again.
Rerun ==
  /\ pc = "shown"
  /\ pc' = "ready"
  /\ query' = NoQuery
  /\ similar_players' = None
  /\ raised' = "none"
  /\ view' = NoView
  /\ UNCHANGED <<fs, final_df, original_data, errors>>

Next == Load \/ FindSimilarClick \/ ShowDatasetStatistics \/ Rerun

Spec == Init /\ [][Next]_vars

TypeOK ==
  /\ pc \in {"start", "failed", "ready", "shown"}
  /\ raised \in {"none", "IndexError"}

\* ----------------------------------------------------------------- claims
\* A query has run: its inputs, result and drawing are in the state.
Asked == pc = "shown" /\ query.asked
Target == query.player_name
Result == similar_players.rows
\* The file the load reads.
SourceFile == IF fs.local.exists THEN fs.local ELSE fs.fallback

\* The rows of final_df whose player is the target, by plain equality.
Matches == {i \in DOMAIN final_df.rows :
              Target # StrNaN /\ final_df.rows[i].player = Target}
FirstMatch == final_df.rows[CHOOSE i \in Matches : \A j \in Matches : i <= j]
\* The candidates of the query: none if no row matches the target (the
\* function returns before it looks for any), else the rows of another
\* player, of the target's position if same_position_only.
Candidates ==
  IF Matches = {} THEN {}
  ELSE {i \in DOMAIN final_df.rows :
          /\ i \notin Matches
          /\ query.same_position_only => final_df.rows[i].pos = FirstMatch.pos}
Diff(row) == Abs(row["Career Score"].v - FirstMatch["Career Score"].v)
ResultIndex == {Result[i].index : i \in DOMAIN Result}

\* C1: no row returned by find_similar_players has the target's player value,
\* also when several rows of the table share it.
C1_TargetNotInResult ==
  Asked => \A i \in DOMAIN Result : Result[i].player # Target
C1_Witness ==
  Asked /\ Cardinality(Matches) >= 2 /\ Result # <<>>

\* C2: with same_position_only every returned row has the pos of the first row
\* of the target, and the result is empty if no other row has that pos.
C2_SamePositionOnly ==
  (Asked /\ query.same_position_only /\ Matches # {}) =>
    /\ \A i \in DOMAIN Result : Result[i].pos = FirstMatch.pos
    /\ (\A i \in DOMAIN final_df.rows :
          i \in Matches \/ final_df.rows[i].pos # FirstMatch.pos) => Result = <<>>
C2_Witness ==
  /\ Asked /\ query.same_position_only /\ Result # <<>>
  /\ \E i \in DOMAIN final_df.rows :
       i \notin Matches /\ final_df.rows[i].pos # FirstMatch.pos

\* C3: the returned rows are in non-decreasing order of score_difference =
\* |candidate Career Score - target Career Score|, rows of equal
\* score_difference in their table order.
C3_SortedStable ==
  Asked =>
    /\ \A i \in DOMAIN Result : Result[i].score_difference = Num(Diff(Result[i]))
    /\ \A i, j \in DOMAIN Result :
         i < j => \/ Result[i].score_difference.v < Result[j].score_difference.v
                  \/ /\ Result[i].score_difference.v = Result[j].score_difference.v
                     /\ Result[i].index < Result[j].index
C3_Witness ==
  /\ Asked /\ Len(Result) >= 2
  /\ Result[1].score_difference = Result[2].score_difference
  /\ Result[1].score_difference.v > 0

\* C4: the result has exactly min(k, c) rows, c the number of candidates.
C4_ExactlyMinKC ==
  Asked => Len(Result) = Min(query.num_comparisons, Cardinality(Candidates))
C4_Witness ==
  /\ Asked /\ Cardinality(Candidates) = 2
  /\ query.num_comparisons = 5 /\ Len(Result) = 2

\* C5: the result is the k nearest candidates: a candidate left out is no
\* nearer than any returned row and, at equal score_difference, later in the
\* table; every returned row is a candidate.
C5_KNearest ==
  Asked =>
    /\ \A r \in DOMAIN Result :
         \E i \in Candidates : final_df.rows[i].index = Result[r].index
    /\ \A i \in Candidates :
         final_df.rows[i].index \notin ResultIndex =>
           \A r \in DOMAIN Result :
             \/ Diff(final_df.rows[i]) > Result[r].score_difference.v
             \/ /\ Diff(final_df.rows[i]) = Result[r].score_difference.v
                /\ final_df.rows[i].index > Result[r].index
C5_Witness ==
  /\ Asked /\ Result # <<>>
  /\ \E i \in Candidates :
       /\ final_df.rows[i].index \notin ResultIndex
       /\ final_df.rows[i].index < Result[1].index
       /\ Diff(final_df.rows[i]) > Result[Len(Result)].score_difference.v

\* C6: a query whose target matches no row returns an empty result, and the
\* run that calls find_similar_players and display_player_comparison ends
\* without an exception.
C6_NoMatchIsNormal ==
  (Asked /\ Matches = {}) => (Result = <<>> /\ raised = "none")

\* The load fails: no file at either path, or no player column.
LoadFails ==
  \/ ~fs.local.exists /\ ~fs.fallback.exists
  \/ SourceFile.exists /\ ~InSeq("player", SourceFile.header)

\* C7: after a failed load there is an error message and no table, and no
\* query or statistics view ever runs.
C7_FailedLoadAborts ==
  (pc # "start" /\ LoadFails) =>
    /\ pc = "failed"
    /\ final_df = None /\ original_data = None
    /\ errors # {}
    /\ query = NoQuery /\ similar_players = None /\ view = NoView
C7_Witness ==
  pc = "failed" /\ SourceFile.exists /\ ~InSeq("player", SourceFile.header)

\* C8: a source with a player column and no data row loads as an empty table,
\* not as a failure.
C8_ZeroRowsLoad ==
  (pc # "start" /\ SourceFile.exists /\ InSeq("player", SourceFile.header)
     /\ SourceFile.rows = <<>>) =>
    (pc # "failed" /\ ~final_df.none /\ final_df.rows = <<>>)

\* The stat columns of the source whose every value is missing.
AllMissing ==
  {c \in StatNames :
     /\ InSeq(c, SourceFile.header) /\ SourceFile.rows # <<>>
     /\ \A i \in DOMAIN SourceFile.rows : SourceFile.rows[i][c].nan}

\* C9: a stat column whose every value is missing is 0 in every row of the
\* loaded table, and every Career Score is a number.
C9_AllMissingIsZero ==
  (pc \in {"ready", "shown"}) =>
    \A i \in DOMAIN final_df.rows :
      /\ \A c \in AllMissing : final_df.rows[i][c] = Num(0)
      /\ ~final_df.rows[i]["Career Score"].nan

\* C10: no step after the load changes final_df or original_data, and no
\* step leaves a score_difference column in final_df.
C10_TablesUnchanged ==
  [][pc # "start" =>
       /\ final_df' = final_df
       /\ original_data' = original_data
       /\ ~InSeq("score_difference", final_df'.columns)]_vars
C10_Witness ==
  Asked /\ Result # <<>> /\ InSeq("score_difference", similar_players.columns)

====
